---------------------------- MODULE Spec2Model ----------------------------
(***************************************************************************)
(* A model of disaggregator/utils.py: the transform functions over         *)
(* appliance traces.                                                       *)
(*                                                                         *)
(* A series is a sequence of samples [t |-> timestamp, v |-> value]; a     *)
(* timestamp is a number of sample periods since a fixed origin.  A trace  *)
(* object is [series, metadata]; metadata is a function from string keys   *)
(* to integers (a Python dict).  The variable `traces' is the heap of the  *)
(* caller's trace objects, indexed by object identity, so that a list of   *)
(* traces handed to a function is a sequence of identities and may name    *)
(* the same object more than once, as a Python list may.                   *)
(*                                                                         *)
(* The functions of utils.py keep no state between calls, so a behaviour   *)
(* is one call: Init draws the caller's objects, and an action is one call *)
(* of one function on them, enabled while no call has been made (op =      *)
(* "none").  The action records the function in `op', the arguments in     *)
(* `args', the outcome in `result', and leaves in `traces' the heap as the *)
(* call left it.  An outcome either returns (kind = "return") or raises    *)
(* (kind = "raise", exc the exception class).  order_traces alone may be   *)
(* called again, on the list it returned.                                  *)
(***************************************************************************)
EXTENDS Integers, Sequences, FiniteSets

VARIABLES traces, op, args, result

vars == <<traces, op, args, result>>

---------------------------------------------------------------------------
(* Bounds of the model.                                                    *)

\* Sample values of the caller's series are 0..MaxVal.
MaxVal == 1
\* A series of the caller holds at most MaxLen samples.
MaxLen == 2
\* The heap holds NTraces trace objects.
NTraces == 2
\* A list argument names at most MaxList traces, so some trace twice.
MaxList == NTraces + 1
\* A list of lists holds at most MaxGroups lists of at most MaxGroups traces.
MaxGroups == 2
\* The series handed to get_trace_windows holds at most MaxSeries samples.
MaxSeries == 10
\* window_length is at most MaxWindow and window_step at most MaxStep.
MaxWindow == 4
MaxStep == 3
\* The series handed to split_trace_into_rate and resample_trace has its
\* timestamps among the MaxSpan sample periods from FirstTime on.
FirstTime == 10
MaxSpan == 6
\* A calendar day holds SamplesPerDay sample periods.
SamplesPerDay == 2
\* resample_trace is asked for periods of 1..MaxPeriod sample periods.
MaxPeriod == 3
\* get_train_valid_test_indices is called with n in 0..MaxN.
MaxN == 5

---------------------------------------------------------------------------
(* Python values.                                                          *)

Vals == 0..MaxVal

\* The empty dict.
EmptyDict == [k \in {} |-> 0]

\* d[k] = v on a dict.
DictSet(d, k, v) == [x \in (DOMAIN d) \cup {k} |-> IF x = k THEN v ELSE d[x]]

\* An optional metadata argument: given = FALSE is Python's None.
NoneArg == [given |-> FALSE, map |-> EmptyDict]

SomeArg(d) == [given |-> TRUE, map |-> d]

\* Python's truth value of a metadata argument: None and {} are false.
Truthy(md) == md.given /\ DOMAIN md.map # {}

\* The values of `how' a caller passes: the default and one other.
Hows == {"strict", "loose"}

\* All sequences over S of length lo..hi.
SeqsOf(S, lo, hi) == UNION {[1..n -> S] : n \in lo..hi}

\* The series of timestamps s, s+1, ..., with the given values.
MkSeries(s, vs) == [i \in 1..Len(vs) |-> [t |-> s + i - 1, v |-> vs[i]]]

\* All series that start at s and hold lo..hi samples of values 0..MaxVal.
RunsFrom(s, lo, hi) == {MkSeries(s, vs) : vs \in SeqsOf(Vals, lo, hi)}

\* Outcomes of a call.  `what' says what was returned; a call that returns
\* an exception class as its value has what = "class" and exc the class.
NoCall == [kind |-> "none", exc |-> "", what |-> ""]

Raise(e) == [kind |-> "raise", exc |-> e, what |-> ""]

ReturnClass(e) ==
    [kind |-> "return", exc |-> e, what |-> "class",
     traces |-> <<>>, metadata |-> EmptyDict]

\* appliance.ApplianceTrace(series, metadata), returned.
ReturnTrace(series, metadata) ==
    [kind |-> "return", exc |-> "", what |-> "trace",
     traces |-> <<[series |-> series, metadata |-> metadata]>>,
     metadata |-> EmptyDict]

\* appliance.ApplianceInstance(traces, metadata), returned.
ReturnInstance(trs, metadata) ==
    [kind |-> "return", exc |-> "", what |-> "instance",
     traces |-> trs, metadata |-> metadata]

\* A list of traces, returned.
ReturnList(trs) ==
    [kind |-> "return", exc |-> "", what |-> "list",
     traces |-> trs, metadata |-> EmptyDict]

---------------------------------------------------------------------------
(* aggregate_traces, aggregate_instances                                   *)

\* a + b on two series with the same index.
SeriesAdd(a, b) == [i \in 1..Len(a) |-> [t |-> a[i].t, v |-> a[i].v + b[i].v]]

\* The loop `for trace in traces[1:]: summed_series += trace.series'.  The
\* name summed_series was bound to the object traces[0].series.  Whether +=
\* on a Series updates that object or binds the name to a new one depends on
\* the pandas release (__iadd__ was an alias of __add__ in the releases of
\* the code's time and updates in place in later ones that still run it):
\* inplace chooses.  Each right-hand side is read from the heap as the
\* earlier steps left it.
RECURSIVE SumLoop(_, _, _, _, _)
SumLoop(heap, summed, refs, i, inplace) ==
    IF i > Len(refs)
    THEN [heap |-> heap, summed |-> summed]
    ELSE LET s == SeriesAdd(summed, heap[refs[i]].series)
             h == IF inplace THEN [heap EXCEPT ![refs[1]].series = s] ELSE heap
         IN SumLoop(h, s, refs, i + 1, inplace)

\* aggregate_traces(traces, metadata, how): the heap it leaves and its outcome.
AggregateTracesCall(heap, refs, metadata, how, inplace) ==
    IF how = "strict"
    THEN IF Len(refs) = 0
         THEN [heap |-> heap, out |-> Raise("IndexError")]
         ELSE LET r == SumLoop(heap, heap[refs[1]].series, refs, 2, inplace)
              IN [heap |-> r.heap, out |-> ReturnTrace(r.summed, metadata)]
    ELSE [heap |-> heap, out |-> ReturnClass("NotImplementedError")]

Min(S) == CHOOSE x \in S : \A y \in S : x <= y

\* [list(t) for t in zip(*lists)]: zip stops at the shortest list.
Transpose(lists) ==
    IF Len(lists) = 0
    THEN <<>>
    ELSE [j \in 1..Min({Len(lists[i]) : i \in 1..Len(lists)}) |->
             [i \in 1..Len(lists) |-> lists[i][j]]]

\* [aggregate_traces(t, {}) for t in traces], group after group on one heap.
RECURSIVE AggregateGroups(_, _, _, _, _)
AggregateGroups(heap, groups, j, done, inplace) ==
    IF j > Len(groups)
    THEN [heap |-> heap, traces |-> done]
    ELSE LET r == AggregateTracesCall(heap, groups[j], EmptyDict, "strict", inplace)
         IN AggregateGroups(r.heap, groups, j + 1, done \o r.out.traces, inplace)

\* aggregate_instances(instances, metadata, how); an instance is given by the
\* list of its traces.
AggregateInstancesCall(heap, instances, metadata, how, inplace) ==
    IF how = "strict"
    THEN LET r == AggregateGroups(heap, Transpose(instances), 1, <<>>, inplace)
         IN [heap |-> r.heap, out |-> ReturnInstance(r.traces, metadata)]
    ELSE [heap |-> heap, out |-> ReturnClass("NotImplementedError")]

\* The metadata a caller hands to an aggregation.
AggMetadata == {EmptyDict, [name |-> 7]}

\* Temporally aligned traces: one index for all, any values.
InitAggregate ==
    /\ \E n \in 0..MaxLen : \E ss \in [1..NTraces -> RunsFrom(0, n, n)] :
           traces = [id \in 1..NTraces |-> [series |-> ss[id], metadata |-> [name |-> id]]]
    /\ op = "none"
    /\ args = [none |-> TRUE]
    /\ result = NoCall

AggregateTraces ==
    \E refs \in SeqsOf(DOMAIN traces, 0, MaxList) :
    \E metadata \in AggMetadata : \E how \in Hows : \E inplace \in BOOLEAN :
        LET r == AggregateTracesCall(traces, refs, metadata, how, inplace)
        IN /\ op = "none"
           /\ op' = "aggregate_traces"
           /\ args' = [traces |-> refs, metadata |-> metadata, how |-> how,
                       before |-> traces]
           /\ result' = r.out
           /\ traces' = r.heap

AggregateInstances ==
    \E insts \in SeqsOf(SeqsOf(DOMAIN traces, 0, MaxGroups), 0, MaxGroups) :
    \E metadata \in AggMetadata : \E how \in Hows : \E inplace \in BOOLEAN :
        LET r == AggregateInstancesCall(traces, insts, metadata, how, inplace)
        IN /\ op = "none"
           /\ op' = "aggregate_instances"
           /\ args' = [instances |-> insts, metadata |-> metadata, how |-> how,
                       before |-> traces]
           /\ result' = r.out
           /\ traces' = r.heap

---------------------------------------------------------------------------
(* concatenate_traces, concatenate_traces_lists                            *)

\* A concatenation that puts each series before the ones listed before it.
RECURSIVE ConcatBackwards(_)
ConcatBackwards(seriesList) ==
    IF Len(seriesList) = 0
    THEN <<>>
    ELSE ConcatBackwards(Tail(seriesList)) \o Head(seriesList)

\* pd.concat(list of series): the series one after the other, as given.
RECURSIVE Concat(_)
Concat(seriesList) ==
    IF Len(seriesList) = 0
    THEN <<>>
    ELSE Head(seriesList) \o Concat(Tail(seriesList))

\* concatenate_traces(traces, metadata, how): its outcome.  It reads
\* traces[0] for the default metadata before it looks at how, and pd.concat
\* refuses an empty list.
ConcatenateTracesCall(heap, refs, metadata, how) ==
    IF ~Truthy(metadata) /\ Len(refs) = 0
    THEN Raise("IndexError")
    ELSE LET md == IF Truthy(metadata) THEN metadata.map ELSE heap[refs[1]].metadata
         IN IF how = "strict"
            THEN IF Len(refs) = 0
                 THEN Raise("ValueError")
                 ELSE ReturnTrace(Concat([i \in 1..Len(refs) |-> heap[refs[i]].series]), md)
            ELSE Raise("NotImplementedError")

\* [concatenate_traces(t, m) for t, m in zip(traces, metadata)]; a group of
\* the transpose is never empty, so no call of the loop raises.
ConcatenateGroups(heap, groups, metadatas) ==
    [j \in 1..Min({Len(groups), Len(metadatas)}) |->
        ConcatenateTracesCall(heap, groups[j], SomeArg(metadatas[j]), "strict").traces[1]]

\* concatenate_traces_lists(traces, metadata, how): its outcome.  metadata
\* is None or a list of dicts; None and [] are false.
ConcatenateTracesListsCall(heap, lists, metadata, how) ==
    IF ~(metadata.given /\ Len(metadata.list) > 0) /\ Len(lists) = 0
    THEN Raise("IndexError")
    ELSE LET mds == IF metadata.given /\ Len(metadata.list) > 0
                    THEN metadata.list
                    ELSE [i \in 1..Len(lists[1]) |-> heap[lists[1][i]].metadata]
         IN IF how = "strict"
            THEN ReturnList(ConcatenateGroups(heap, Transpose(lists), mds))
            ELSE Raise("NotImplementedError")

\* The metadata a caller hands to concatenate_traces: None, {} or a dict.
ConcatMetadata == {NoneArg, SomeArg(EmptyDict), SomeArg([name |-> 7])}

\* The metadata a caller hands to concatenate_traces_lists.
ConcatListsMetadata ==
    {[given |-> FALSE, list |-> <<>>], [given |-> TRUE, list |-> <<>>],
     [given |-> TRUE, list |-> <<[name |-> 7]>>],
     [given |-> TRUE, list |-> <<EmptyDict, [name |-> 8]>>]}

\* The sampled signal the chunked traces are cut from, of phase g.
Signal(g, t) == (t + g) % (MaxVal + 1)

\* The samples of the signal at timestamps s .. s+n-1.
Chunk(g, s, n) == MkSeries(s, [i \in 1..n |-> Signal(g, s + i - 1)])

\* The heap whose traces are consecutive chunks of the signal, of these lengths.
RECURSIVE ChunkStart(_, _)
ChunkStart(lens, id) == IF id = 1 THEN 0 ELSE ChunkStart(lens, id - 1) + lens[id - 1]

ChunkHeap(g, lens) ==
    [id \in 1..Len(lens) |->
        [series |-> Chunk(g, ChunkStart(lens, id), lens[id]),
         metadata |-> [name |-> id]]]

\* A temporally chunked dataset: trace id+1 starts where trace id ends.
InitConcatenate ==
    /\ \E g \in Vals : \E lens \in [1..NTraces -> 0..MaxLen] :
           traces = ChunkHeap(g, lens)
    /\ op = "none"
    /\ args = [none |-> TRUE]
    /\ result = NoCall

ConcatenateTraces ==
    \E refs \in SeqsOf(DOMAIN traces, 0, MaxList) :
    \E metadata \in ConcatMetadata : \E how \in Hows :
        /\ op = "none"
        /\ op' = "concatenate_traces"
        /\ args' = [traces |-> refs, metadata |-> metadata, how |-> how,
                    before |-> traces]
        /\ result' = ConcatenateTracesCall(traces, refs, metadata, how)
        /\ UNCHANGED traces

ConcatenateTracesLists ==
    \E lists \in SeqsOf(SeqsOf(DOMAIN traces, 0, MaxGroups), 0, MaxGroups) :
    \E metadata \in ConcatListsMetadata : \E how \in Hows :
        /\ op = "none"
        /\ op' = "concatenate_traces_lists"
        /\ args' = [lists |-> lists, metadata |-> metadata, how |-> how,
                    before |-> traces]
        /\ result' = ConcatenateTracesListsCall(traces, lists, metadata, how)
        /\ UNCHANGED traces

---------------------------------------------------------------------------
(* get_trace_windows                                                       *)

\* series[start:stop].tolist() for 0 <= start: the values at the 0-based
\* positions start .. stop-1 that the series has.
Slice(series, start, stop) ==
    LET hi == IF stop < Len(series) THEN stop ELSE Len(series)
    IN IF hi <= start THEN <<>> ELSE [k \in 1..(hi - start) |-> series[start + k].v]

\* A step count that also counts the last window that fits.
NStepsInclusive(total_length, window_length, window_step) ==
    (total_length - window_length) \div window_step + 1

\* n_steps = int((total_length - window_length) / window_step): on Python 2
\* integers / is the floor division, as \div is.
NSteps(total_length, window_length, window_step) ==
    (total_length - window_length) \div window_step

\* The list `windows' after the loop `for step in range(n_steps)'.
Windows(series, window_length, window_step) ==
    LET n == NSteps(Len(series), window_length, window_step)
    IN IF n <= 0
       THEN <<>>
       ELSE [i \in 1..n |->
                Slice(series, (i - 1) * window_step, (i - 1) * window_step + window_length)]

\* get_trace_windows(trace, window_length, window_step): its outcome; rows
\* are the rows of the array.
GetTraceWindowsCall(trace, window_length, window_step) ==
    IF window_step = 0
    THEN Raise("ZeroDivisionError")
    ELSE [kind |-> "return", exc |-> "", what |-> "array",
          rows |-> Windows(trace.series, window_length, window_step)]

\* One trace whose values rise by one a sample, from g.
InitWindows ==
    /\ \E g \in Vals : \E n \in 0..MaxSeries :
           traces = <<[series |-> MkSeries(0, [i \in 1..n |-> g + i - 1]),
                       metadata |-> [name |-> 1]]>>
    /\ op = "none"
    /\ args = [none |-> TRUE]
    /\ result = NoCall

GetTraceWindows ==
    \E id \in DOMAIN traces :
    \E window_length \in 0..MaxWindow : \E window_step \in 0..MaxStep :
        /\ op = "none"
        /\ op' = "get_trace_windows"
        /\ args' = [trace |-> id, window_length |-> window_length,
                    window_step |-> window_step, before |-> traces]
        /\ result' = GetTraceWindowsCall(traces[id], window_length, window_step)
        /\ UNCHANGED traces

---------------------------------------------------------------------------
(* order_traces                                                            *)

\* The permutations of 1..n, as sequences.
Perms(n) == {p \in [1..n -> 1..n] : \A i, j \in 1..n : p[i] = p[j] => i = j}

\* np.argsort(keys) with the default kind, a sort that is not stable: an
\* order of the positions in which the keys do not decrease; which of the
\* positions of equal keys comes first is not determined.
ArgSorts(keys) ==
    {p \in Perms(Len(keys)) :
        \A i, j \in 1..Len(keys) : i < j => keys[p[i]] <= keys[p[j]]}

\* order_traces(traces), its argsort having answered `order': t.series.index[0]
\* fails on a trace without samples.
OrderTracesCall(heap, refs, order) ==
    IF \E i \in 1..Len(refs) : Len(heap[refs[i]].series) = 0
    THEN Raise("IndexError")
    ELSE [kind |-> "return", exc |-> "", what |-> "list",
          refs |-> [i \in 1..Len(refs) |-> refs[order[i]]]]

\* The keys order_traces sorts by; a trace without samples has none, and the
\* call fails before the sort.
FirstTimes(heap, refs) ==
    [i \in 1..Len(refs) |->
        IF Len(heap[refs[i]].series) = 0 THEN 0 ELSE heap[refs[i]].series[1].t]

\* Traces that start anywhere in 0..MaxLen, so that some start together.
InitOrder ==
    /\ \E starts \in [1..NTraces -> 0..MaxLen] : \E lens \in [1..NTraces -> 0..MaxLen] :
           traces = [id \in 1..NTraces |->
                        [series |-> Chunk(0, starts[id], lens[id]),
                         metadata |-> [name |-> id]]]
    /\ op = "none"
    /\ args = [none |-> TRUE]
    /\ result = NoCall

OrderTraces ==
    \E refs \in SeqsOf(DOMAIN traces, 0, MaxList) :
    \E order \in ArgSorts(FirstTimes(traces, refs)) :
        /\ op = "none"
        /\ op' = "order_traces"
        /\ args' = [traces |-> refs, again |-> FALSE, before |-> traces]
        /\ result' = OrderTracesCall(traces, refs, order)
        /\ UNCHANGED traces

\* order_traces called on the list a call of order_traces returned.
OrderTracesAgain ==
    /\ op = "order_traces"
    /\ ~args.again
    /\ result.kind = "return"
    /\ \E order \in ArgSorts(FirstTimes(traces, result.refs)) :
        /\ op' = "order_traces"
        /\ args' = [traces |-> result.refs, again |-> TRUE, before |-> traces]
        /\ result' = OrderTracesCall(traces, result.refs, order)
        /\ UNCHANGED traces

---------------------------------------------------------------------------
(* split_trace_into_rate                                                   *)

\* The program's calendar: timestamp 0 is the midnight that starts a Monday.
DaysPerWeek == 7

\* series.index.date: the calendar day of a timestamp.
Date(t) == t \div SamplesPerDay

\* series.index.week: the week of a timestamp, within one year.
Week(t) == Date(t) \div DaysPerWeek

\* The key series.groupby groups a timestamp by, for the rates 'D' and 'W'.
GroupKey(rate, t) == IF rate = "D" THEN Date(t) ELSE Week(t)

\* The elements of a finite set of integers, ascending.
RECURSIVE Ascending(_)
Ascending(S) ==
    IF S = {} THEN <<>> ELSE LET m == Min(S) IN <<m>> \o Ascending(S \ {m})

\* The samples of the series whose key is k, in the order of the series.
RECURSIVE SamplesOf(_, _, _)
SamplesOf(series, rate, k) ==
    IF Len(series) = 0
    THEN <<>>
    ELSE (IF GroupKey(rate, Head(series).t) = k THEN <<Head(series)>> ELSE <<>>)
             \o SamplesOf(Tail(series), rate, k)

\* series.groupby(keys): the groups in ascending order of their key.
GroupBy(series, rate) ==
    LET keys == Ascending({GroupKey(rate, series[i].t) : i \in 1..Len(series)})
    IN [j \in 1..Len(keys) |-> SamplesOf(series, rate, keys[j])]

\* A numbering of the groups from one.
SplitMetadataFromOne(metadata, i) == DictSet(metadata, "trace_num", i + 1)

\* metadata = dict.copy(trace.metadata); metadata['trace_num'] = i
SplitMetadata(metadata, i) == DictSet(metadata, "trace_num", i)

\* split_trace_into_rate(trace, rate): its outcome.  Another rate prints a
\* message and returns the empty list.
SplitTraceIntoRateCall(trace, rate) ==
    IF rate \in {"D", "W"}
    THEN LET groups == GroupBy(trace.series, rate)
         IN ReturnList([j \in 1..Len(groups) |->
                           [series |-> groups[j],
                            metadata |-> SplitMetadata(trace.metadata, j - 1)]])
    ELSE ReturnList(<<>>)

\* The series with the timestamps T and the values vs[t].
SeriesOn(T, vs) ==
    LET ts == Ascending(T) IN [i \in 1..Len(ts) |-> [t |-> ts[i], v |-> vs[ts[i]]]]

SpanTimes == FirstTime..(FirstTime + MaxSpan - 1)

\* The metadata of the trace that is split: with and without a trace_num.
SourceMetadata == {[name |-> 1], [name |-> 1, trace_num |-> 9]}

\* One trace: any timestamps of the span, ascending, any values.
InitSplit ==
    /\ \E T \in SUBSET SpanTimes : \E vs \in [T -> Vals] : \E md \in SourceMetadata :
           traces = <<[series |-> SeriesOn(T, vs), metadata |-> md]>>
    /\ op = "none"
    /\ args = [none |-> TRUE]
    /\ result = NoCall

SplitTraceIntoRate ==
    \E id \in DOMAIN traces : \E rate \in {"D", "W", "H"} :
        /\ op = "none"
        /\ op' = "split_trace_into_rate"
        /\ args' = [trace |-> id, rate |-> rate, before |-> traces]
        /\ result' = SplitTraceIntoRateCall(traces[id], rate)
        /\ UNCHANGED traces

---------------------------------------------------------------------------
(* resample_trace                                                          *)

RECURSIVE Gcd(_, _)
Gcd(a, b) == IF b = 0 THEN a ELSE Gcd(b, a % b)

RECURSIVE Total(_)
Total(samples) == IF Len(samples) = 0 THEN 0 ELSE Head(samples).v + Total(Tail(samples))

\* The mean of the values of the samples, the fraction num/den in lowest
\* terms; the mean of no samples is NaN, written 0/0.
Mean(samples) ==
    LET g == Gcd(Total(samples), Len(samples))
    IN IF Len(samples) = 0
       THEN [num |-> 0, den |-> 0]
       ELSE [num |-> Total(samples) \div g, den |-> Len(samples) \div g]

\* The samples of the series with lo <= t < hi.
RECURSIVE SamplesIn(_, _, _)
SamplesIn(series, lo, hi) ==
    IF Len(series) = 0
    THEN <<>>
    ELSE (IF lo <= Head(series).t /\ Head(series).t < hi THEN <<Head(series)>> ELSE <<>>)
             \o SamplesIn(Tail(series), lo, hi)

\* series.resample(rate, how='mean') for a rate of `period' sample periods:
\* one sample per period from the period of the first timestamp to the
\* period of the last, at the period's start, the mean of the period's values.
ResampleMean(series, period) ==
    IF Len(series) = 0
    THEN <<>>
    ELSE LET first == series[1].t \div period
             last == series[Len(series)].t \div period
         IN [k \in 1..(last - first + 1) |->
                [t |-> (first + k - 1) * period,
                 v |-> Mean(SamplesIn(series, (first + k - 1) * period,
                                      (first + k) * period))]]

\* resample_trace(trace, sample_rate): its outcome.  pandas raises
\* ValueError for a sample_rate that is no offset alias; the handler is
\* `raise SampleError(self.sample_rate)', and utils.py neither defines nor
\* imports SampleError (nor has the function a self): evaluating the
\* statement raises NameError.
ResampleTraceCall(trace, sample_rate) ==
    IF sample_rate.valid
    THEN ReturnTrace(ResampleMean(trace.series, sample_rate.period), trace.metadata)
    ELSE Raise("NameError")

\* The sample rates a caller passes: offsets of 1..MaxPeriod sample periods,
\* and a string that is no offset alias.
SampleRates ==
    {[valid |-> TRUE, period |-> n] : n \in 1..MaxPeriod}
        \cup {[valid |-> FALSE, period |-> 0]}

ResampleTrace ==
    \E id \in DOMAIN traces : \E sample_rate \in SampleRates :
        /\ op = "none"
        /\ op' = "resample_trace"
        /\ args' = [trace |-> id, sample_rate |-> sample_rate, before |-> traces]
        /\ result' = ResampleTraceCall(traces[id], sample_rate)
        /\ UNCHANGED traces

---------------------------------------------------------------------------
(* get_train_valid_test_indices                                            *)

\* n_train = n/2 and n_valid = n/4: on Python 2 integers, floor divisions.
NTrain(n) == n \div 2

NValid(n) == n \div 4

\* A test set of a quarter of the indices.
NTestQuarter(n) == n \div 4

\* n_test = n - n_train - n_valid
NTest(n) == n - NTrain(n) - NValid(n)

\* indices[lo:hi] of a list, 0-based and hi exclusive.
ListSlice(list, lo, hi) ==
    LET top == IF hi < Len(list) THEN hi ELSE Len(list)
    IN IF top <= lo THEN <<>> ELSE [k \in 1..(top - lo) |-> list[lo + k]]

\* sorted(list) of distinct integers.
Sorted(list) == Ascending({list[i] : i \in 1..Len(list)})

\* get_train_valid_test_indices(n), np.random.shuffle having left
\* `indices' in the order `shuffled': its outcome.  The third slice has no
\* upper end; n_test only feeds the assert.
GetTrainValidTestIndicesCall(n, shuffled) ==
    IF n # NTrain(n) + NValid(n) + NTest(n)
    THEN Raise("AssertionError")
    ELSE [kind |-> "return", exc |-> "", what |-> "indices",
          train |-> Sorted(ListSlice(shuffled, 0, NTrain(n))),
          valid |-> Sorted(ListSlice(shuffled, NTrain(n), NTrain(n) + NValid(n))),
          test |-> Sorted(ListSlice(shuffled, NTrain(n) + NValid(n), Len(shuffled)))]

\* The orders np.random.shuffle can leave np.arange(n) in.
Shuffles(n) == {[i \in 1..n |-> p[i] - 1] : p \in Perms(n)}

\* No trace is involved.
InitIndices ==
    /\ traces = <<>>
    /\ op = "none"
    /\ args = [none |-> TRUE]
    /\ result = NoCall

GetTrainValidTestIndices ==
    \E n \in 0..MaxN : \E shuffled \in Shuffles(n) :
        /\ op = "none"
        /\ op' = "get_train_valid_test_indices"
        /\ args' = [n |-> n, shuffled |-> shuffled, before |-> traces]
        /\ result' = GetTrainValidTestIndicesCall(n, shuffled)
        /\ UNCHANGED traces

NextAggregate == AggregateTraces \/ AggregateInstances

SpecAggregate == InitAggregate /\ [][NextAggregate]_vars

NextConcatenate == ConcatenateTraces

SpecConcatenate == InitConcatenate /\ [][NextConcatenate]_vars

NextModes ==
    \/ AggregateTraces
    \/ AggregateInstances
    \/ ConcatenateTraces
    \/ ConcatenateTracesLists

\* The four functions that take `how', on aligned traces.
SpecModes == InitAggregate /\ [][NextModes]_vars

NextOrder == OrderTraces \/ OrderTracesAgain

SpecOrder == InitOrder /\ [][NextOrder]_vars

NextSplit == SplitTraceIntoRate

SpecSplit == InitSplit /\ [][NextSplit]_vars

NextResample == ResampleTrace

SpecResample == InitSplit /\ [][NextResample]_vars

NextIndices == GetTrainValidTestIndices

SpecIndices == InitIndices /\ [][NextIndices]_vars

NextWindows == GetTraceWindows

SpecWindows == InitWindows /\ [][NextWindows]_vars

---------------------------------------------------------------------------
(* Properties.                                                             *)

\* The sum over the list refs of the values the traces held at position pos
\* in the heap `heap'; a trace named twice counts twice.
RECURSIVE SumAt(_, _, _)
SumAt(heap, refs, pos) ==
    IF Len(refs) = 0
    THEN 0
    ELSE heap[Head(refs)].series[pos].v + SumAt(heap, Tail(refs), pos)

\* C1: aggregate_traces, called with how = "strict" on a non-empty list of
\* aligned traces, returns a trace whose series is as long as the inputs'
\* and whose sample at every position is the sum of the samples the listed
\* traces held at that position before the call.
C1_AggregateIsSum ==
    (op = "aggregate_traces" /\ args.how = "strict" /\ Len(args.traces) >= 1) =>
        /\ result.kind = "return"
        /\ result.what = "trace"
        /\ LET out == result.traces[1].series
               first == args.before[args.traces[1]].series
           IN /\ Len(out) = Len(first)
              /\ \A pos \in 1..Len(first) :
                     out[pos].v = SumAt(args.before, args.traces, pos)

\* C2: a call of a transform function leaves the series and the metadata
\* of every trace of the caller as they were before the call.
C2_InputsUnchanged ==
    op # "none" => traces = args.before

\* C3: called with how other than "strict", each of aggregate_traces,
\* aggregate_instances, concatenate_traces and concatenate_traces_lists
\* ends by raising NotImplementedError, and returns nothing.
C3_OtherModesRaise ==
    (/\ op \in {"aggregate_traces", "aggregate_instances",
                "concatenate_traces", "concatenate_traces_lists"}
     /\ args.how # "strict") =>
        (result.kind = "raise" /\ result.exc = "NotImplementedError")

\* The non-empty traces of the list follow one another in time: each starts
\* one sample period after the one before it ends.
Contiguous(heap, refs) ==
    \A i, j \in 1..Len(refs) :
        (/\ i < j
         /\ Len(heap[refs[i]].series) > 0
         /\ Len(heap[refs[j]].series) > 0
         /\ \A k \in (i + 1)..(j - 1) : Len(heap[refs[k]].series) = 0) =>
            LET a == heap[refs[i]].series
                b == heap[refs[j]].series
            IN b[1].t = a[Len(a)].t + 1

\* The number of samples of the traces refs[1..i-1].
RECURSIVE Offset(_, _, _)
Offset(heap, refs, i) ==
    IF i = 1 THEN 0 ELSE Offset(heap, refs, i - 1) + Len(heap[refs[i - 1]].series)

\* C4: concatenate_traces, called with how = "strict" on a non-empty list
\* of contiguous traces, returns a trace whose series holds as many samples
\* as the inputs together, and sample k of traces[i] stands at position
\* (length of traces[0..i-1]) + k: the inputs' samples in the order given.
C4_ConcatenateInOrder ==
    (/\ op = "concatenate_traces"
     /\ args.how = "strict"
     /\ Len(args.traces) >= 1
     /\ Contiguous(args.before, args.traces)) =>
        /\ result.kind = "return"
        /\ result.what = "trace"
        /\ LET out == result.traces[1].series
               refs == args.traces
               n == Len(refs)
           IN /\ Len(out) = Offset(args.before, refs, n + 1)
              /\ \A i \in 1..n :
                     \A k \in 1..Len(args.before[refs[i]].series) :
                         out[Offset(args.before, refs, i) + k]
                             = args.before[refs[i]].series[k]

\* C4's case: two non-empty contiguous traces were concatenated.
C4_Witness ==
    /\ op = "concatenate_traces"
    /\ args.how = "strict"
    /\ args.traces = <<1, 2>>
    /\ Len(args.before[1].series) = MaxLen
    /\ Len(args.before[2].series) > 0
    /\ Contiguous(args.before, args.traces)
    /\ result.kind = "return"

\* The values of the series at the 0-based positions start .. start+n-1.
ValuesFrom(series, start, n) == [k \in 1..n |-> series[start + k].v]

\* C5: for positive window_length and window_step, get_trace_windows
\* returns floor((L - window_length) / window_step) rows when that is not
\* negative and no row when it is, and row i (from 0) holds the
\* window_length samples from offset i * window_step.
C5_WindowRows ==
    (op = "get_trace_windows" /\ args.window_length >= 1 /\ args.window_step >= 1) =>
        /\ result.kind = "return"
        /\ LET series == args.before[args.trace].series
               d == Len(series) - args.window_length
               n == Len(result.rows)
           IN /\ IF d < 0
                 THEN n = 0
                 ELSE n * args.window_step <= d /\ d < (n + 1) * args.window_step
              /\ \A i \in 0..(n - 1) :
                     result.rows[i + 1]
                         = ValuesFrom(series, i * args.window_step, args.window_length)
              /\ (Len(series) = 10 /\ args.window_length = 3 /\ args.window_step = 2)
                     => n = 3

\* C5's case: the trace of 10 samples, window_length 3, window_step 2.
C5_Witness ==
    /\ op = "get_trace_windows"
    /\ Len(args.before[args.trace].series) = 10
    /\ args.window_length = 3
    /\ args.window_step = 2
    /\ result.kind = "return"
    /\ Len(result.rows) = 3
    /\ result.rows[3] = ValuesFrom(args.before[args.trace].series, 4, 3)

\* C6: for positive window_length and window_step, get_trace_windows
\* returns a row for every i >= 0 whose window i * window_step ..
\* i * window_step + window_length - 1 lies within the series.
C6_EveryWindowInBounds ==
    (op = "get_trace_windows" /\ args.window_length >= 1 /\ args.window_step >= 1) =>
        /\ result.kind = "return"
        /\ \A i \in 0..MaxSeries :
               i * args.window_step + args.window_length
                       <= Len(args.before[args.trace].series)
                   => i + 1 <= Len(result.rows)

\* How many times x stands in the sequence.
Count(seq, x) == Cardinality({i \in 1..Len(seq) : seq[i] = x})

DatesOf(series) == {Date(series[i].t) : i \in 1..Len(series)}

\* C8: split_trace_into_rate by day returns one trace per calendar day of
\* the series; every sample of the series is in exactly one returned trace,
\* whose samples are the samples of that day; returned trace j (from 0) has
\* metadata trace_num = j, and every other key as in the source's metadata.
C8_SplitByDay ==
    (op = "split_trace_into_rate" /\ args.rate = "D") =>
        /\ result.kind = "return"
        /\ LET src == args.before[args.trace]
               out == result.traces
           IN /\ Len(out) = Cardinality(DatesOf(src.series))
              /\ \A i \in 1..Len(src.series) :
                     \E j \in 1..Len(out) :
                         /\ \E k \in 1..Len(out[j].series) :
                                out[j].series[k] = src.series[i]
                         /\ \A j2 \in 1..Len(out) :
                                (\E k \in 1..Len(out[j2].series) :
                                     out[j2].series[k].t = src.series[i].t) => j2 = j
              /\ \A j \in 1..Len(out) :
                     /\ Len(out[j].series) > 0
                     /\ \A k \in 1..Len(out[j].series) :
                            /\ Date(out[j].series[k].t) = Date(out[j].series[1].t)
                            /\ \E i \in 1..Len(src.series) :
                                   src.series[i] = out[j].series[k]
                     /\ Len(out[j].series)
                            = Cardinality({i \in 1..Len(src.series) :
                                  Date(src.series[i].t) = Date(out[j].series[1].t)})
                     /\ DOMAIN out[j].metadata = DOMAIN src.metadata \cup {"trace_num"}
                     /\ out[j].metadata["trace_num"] = j - 1
                     /\ \A key \in DOMAIN src.metadata \ {"trace_num"} :
                            out[j].metadata[key] = src.metadata[key]

\* C8's case: a trace with samples on 3 calendar days, two of them on one
\* day, and a trace_num of its own, was split by day into 3 traces.
C8_Witness ==
    /\ op = "split_trace_into_rate"
    /\ args.rate = "D"
    /\ Cardinality(DatesOf(args.before[args.trace].series)) = 3
    /\ Len(args.before[args.trace].series) > 3
    /\ "trace_num" \in DOMAIN args.before[args.trace].metadata
    /\ result.kind = "return"
    /\ Len(result.traces) = 3
    /\ result.traces[3].metadata["trace_num"] = 2

\* C9: resample_trace, asked for a sample rate that pandas refuses with a
\* ValueError, ends by raising SampleError and in no other way.
C9_InvalidRateRaisesSampleError ==
    (op = "resample_trace" /\ ~args.sample_rate.valid) =>
        (result.kind = "raise" /\ result.exc = "SampleError")

\* The set of the elements of a sequence.
Elems(seq) == {seq[i] : i \in 1..Len(seq)}

\* The three arrays are pairwise disjoint and hold exactly 0..n-1.
SplitsIndices(r, n) ==
    /\ Elems(r.train) \cap Elems(r.valid) = {}
    /\ Elems(r.train) \cap Elems(r.test) = {}
    /\ Elems(r.valid) \cap Elems(r.test) = {}
    /\ Elems(r.train) \cup Elems(r.valid) \cup Elems(r.test) = 0..(n - 1)

===========================================================================
